---- MODULE Spec2Model ----
(***************************************************************************)
(* Monte Carlo Tree Search engine of src/src/engine.rs.                    *)
(*                                                                         *)
(* The tree is the arena `nodes` (Tree.nodes); a NodeId is an index into   *)
(* it, 1-based here (NodeId(0) of the code is index 1).  An Option<T> is   *)
(* the empty sequence (None) or a one-element sequence (Some(x)).          *)
(* Node.wins is an f32 that only ever receives 0, 0.5 or 1: it is kept in  *)
(* half-point units (wins = 3 means 1.5), which f32 represents exactly.    *)
(*                                                                         *)
(* The rules of the game (crate::board::Bughouse) are not part of the      *)
(* engine: the oracle below is a small subtraction game that supplies the  *)
(* capabilities the engine consumes (legal_moves, play, outcome, turn).    *)
(***************************************************************************)
EXTENDS Integers, Sequences, FiniteSets, TLC

(* ------------------------------ bounds -------------------------------- *)
\* largest heap of an initial position (depth of the game)
MaxHeap == 4
\* largest budget value of go, for either kind of budget
MaxBudget == 1

VARIABLES nodes, pc, until, iterations, elapsed, returned, log

vars == <<nodes, pc, until, iterations, elapsed, returned, log>>

(* ------------------------------ oracle -------------------------------- *)
Colors == {"White", "Black"}

\* Color::not
Not(c) == IF c = "White" THEN "Black" ELSE "White"

\* most stones a move may take
MaxTake == 3

Min(a, b) == IF a <= b THEN a ELSE b

\* Position::legal_moves: the ordered list of legal moves
legal_moves(p) == [i \in 1..Min(p.heap, MaxTake) |-> i]

\* Position::play: the successor position
play(p, m) == [heap |-> p.heap - m, turn |-> Not(p.turn), last |-> m]

Draw == [kind |-> "Draw", winner |-> "None"]
Decisive(c) == [kind |-> "Decisive", winner |-> c]

\* Position::outcome: Some(outcome) exactly when no legal move remains
outcome(p) ==
    IF p.heap # 0 THEN << >>
    ELSE IF p.last % 3 = 1 THEN << Decisive(Not(p.turn)) >>
    ELSE IF p.last % 3 = 2 THEN << Draw >>
    ELSE << Decisive(p.turn) >>

\* the initial positions an engine may be built from; the rules treat the
\* two colours alike, so White is to move in all of them
Setups == [heap : 0..MaxHeap, turn : {"White"}, last : {0}]

(* ----------------------------- the tree ------------------------------- *)
Root == 1

Last(s) == s[Len(s)]

\* Engine::new: the root node
NewRoot(position) ==
    [ side_that_moved |-> Not(position.turn),
      last_move       |-> << >>,
      position        |-> position,
      wins            |-> 0,
      simulations     |-> 0,
      children        |-> << >> ]

\* fixed-point unit of a UCT score: a score s is kept as s * Scale
Scale == 1000000

\* f32::MAX, above every score a visited child can have
F32Max == 2000000000

\* the NaN that sqrt(ln(0) / n) gives; every comparison with it is false
NaN == -2000000000

\* the initial highest_uct of the fold, -1f32
MinusOne == -Scale

\* Explore[N][n] = 1.414 * sqrt(ln(N) / n) * Scale, rounded
Explore ==
    << << 0, 0, 0, 0, 0, 0, 0, 0, 0, 0, 0, 0 >>,
       << 1177232, 832429, 679675, 588616, 526474, 480603, 444952, 416214, 392411, 372274, 354949, 339838 >>,
       << 1482080, 1047989, 855679, 741040, 662806, 605057, 560174, 523994, 494027, 468675, 446864, 427840 >>,
       << 1664858, 1177232, 961206, 832429, 744547, 679675, 629257, 588616, 554953, 526474, 501974, 480603 >>,
       << 1793852, 1268445, 1035681, 896926, 802235, 732337, 678012, 634222, 597951, 567266, 540867, 517840 >>,
       << 1892733, 1338364, 1092770, 946366, 846456, 772705, 715386, 669182, 630911, 598535, 570680, 546385 >>,
       << 1972472, 1394748, 1138807, 986236, 882116, 805258, 745524, 697374, 657491, 623750, 594723, 569404 >>,
       << 2039026, 1441809, 1177232, 1019513, 911880, 832429, 770679, 720905, 679675, 644797, 614789, 588616 >>,
       << 2095978, 1482080, 1210113, 1047989, 937350, 855679, 792205, 741040, 698659, 662806, 631961, 605057 >>,
       << 2145642, 1517198, 1238787, 1072821, 959560, 875955, 810976, 758599, 715214, 678512, 646935, 619393 >>,
       << 2189599, 1548280, 1264165, 1094799, 979218, 893900, 827590, 774140, 729866, 692412, 660189, 632083 >>,
       << 2228971, 1576121, 1286897, 1114486, 996826, 909974, 842472, 788060, 742990, 704863, 672060, 643449 >> >>

\* the closure uct of select_next: the score of child c of node id
uct(t, id, c) ==
    IF t[c].simulations = 0 THEN F32Max
    ELSE IF t[id].simulations = 0 THEN NaN
    ELSE (t[c].wins * (Scale \div 2)) \div t[c].simulations
         + Explore[t[id].simulations][t[c].simulations]

\* f32 comparison a > b
Gt(a, b) == a # NaN /\ b # NaN /\ a > b

RECURSIVE select_fold_ge(_, _, _, _, _)
\* select_fold with >= for >: a later child replaces one of equal score
select_fold_ge(t, id, k, best, high) ==
    IF k > Len(t[id].children) THEN best
    ELSE LET c == t[id].children[k]
             s == uct(t, id, c)
         IN  IF s # NaN /\ high # NaN /\ s >= high
             THEN select_fold_ge(t, id, k + 1, << c >>, s)
             ELSE select_fold_ge(t, id, k + 1, best, high)

RECURSIVE select_fold(_, _, _, _, _)
\* the fold of select_next from child k on, with the accumulator (best, high)
select_fold(t, id, k, best, high) ==
    IF k > Len(t[id].children) THEN best
    ELSE LET c == t[id].children[k]
             s == uct(t, id, c)
         IN  IF Gt(s, high) THEN select_fold(t, id, k + 1, << c >>, s)
             ELSE select_fold(t, id, k + 1, best, high)

\* Tree::select_next: Some(child of highest score), None without children
select_next(t, id) == select_fold(t, id, 1, << >>, MinusOne)

\* select_loop with if-let for while-let: at most one step down
select_loop_once(t, branch) ==
    LET next == select_next(t, Last(branch))
    IN  IF next = << >> THEN branch ELSE Append(branch, next[1])

RECURSIVE select_loop(_, _)
\* the while-let loop of select_branch
select_loop(t, branch) ==
    LET next == select_next(t, Last(branch))
    IN  IF next = << >> THEN branch
        ELSE select_loop(t, Append(branch, next[1]))

\* Tree::select_branch: the nodes from the root down to a leaf
select_branch(t, root) == select_loop(t, << root >>)

\* the child node expand_tree builds for one legal move
NewChild_same_side(node, legal_move) ==
    [ side_that_moved |-> node.side_that_moved,
      last_move       |-> << legal_move >>,
      position        |-> play(node.position, legal_move),
      wins            |-> 0,
      simulations     |-> 0,
      children        |-> << >> ]

NewChild(node, legal_move) ==
    [ side_that_moved |-> Not(node.side_that_moved),
      last_move       |-> << legal_move >>,
      position        |-> play(node.position, legal_move),
      wins            |-> 0,
      simulations     |-> 0,
      children        |-> << >> ]

\* expand_tree skipping the first legal move
expand_tree_skip_first(t, leaf_id) ==
    LET all      == legal_moves(t[leaf_id].position)
        rest     == IF Len(all) = 0 THEN 0 ELSE Len(all) - 1
        children == [i \in 1..rest |-> NewChild(t[leaf_id], all[i + 1])]
        ids      == [i \in 1..rest |-> Len(t) + i]
        pushed   == t \o children
    IN  [pushed EXCEPT ![leaf_id].children = @ \o ids]

\* expand_tree giving every child the id of the first node it pushes
expand_tree_first_id(t, leaf_id) ==
    LET moves    == legal_moves(t[leaf_id].position)
        children == [i \in 1..Len(moves) |-> NewChild(t[leaf_id], moves[i])]
        ids      == [i \in 1..Len(moves) |-> Len(t) + 1]
        pushed   == t \o children
    IN  [pushed EXCEPT ![leaf_id].children = @ \o ids]

\* Tree::expand_tree: one new node per legal move, pushed in order, and
\* their ids appended to the children of the leaf
expand_tree(t, leaf_id) ==
    LET moves    == legal_moves(t[leaf_id].position)
        children == [i \in 1..Len(moves) |-> NewChild(t[leaf_id], moves[i])]
        ids      == [i \in 1..Len(moves) |-> Len(t) + i]
        pushed   == t \o children
    IN  [pushed EXCEPT ![leaf_id].children = @ \o ids]

RECURSIVE simulate(_)
\* Tree::simulate: the outcomes a random playout from the position can end in
simulate(position) ==
    LET moves == legal_moves(position)
    IN  IF Len(moves) > 0
        THEN UNION { simulate(play(position, moves[i])) : i \in 1..Len(moves) }
        ELSE { outcome(position)[1] }

\* Reward scoring a win 2 points and a draw 1 point
Reward_points(node, result) ==
    IF result.kind = "Decisive"
    THEN IF result.winner = node.side_that_moved THEN 4 ELSE 0
    ELSE 2

\* the amount backpropagate adds to wins, in half points
Reward(node, result) ==
    IF result.kind = "Decisive"
    THEN IF result.winner = node.side_that_moved THEN 2 ELSE 0
    ELSE 1

RECURSIVE backpropagate_from_root_reward(_, _, _, _)
\* backpropagate_from matching the result once, for the first node of the
\* branch, and adding that amount to every node
backpropagate_from_root_reward(t, branch, result, i) ==
    IF i > Len(branch) THEN t
    ELSE backpropagate_from_root_reward(
             [t EXCEPT ![branch[i]].wins = @ + Reward(t[branch[1]], result),
                       ![branch[i]].simulations = @ + 1],
             branch, result, i + 1)

RECURSIVE backpropagate_from(_, _, _, _)
\* the for loop of backpropagate from the i-th node of the branch on
backpropagate_from(t, branch, result, i) ==
    IF i > Len(branch) THEN t
    ELSE backpropagate_from(
             [t EXCEPT ![branch[i]].wins = @ + Reward(t[branch[i]], result),
                       ![branch[i]].simulations = @ + 1],
             branch, result, i + 1)

\* Tree::backpropagate
backpropagate_skip_root(t, branch, result) ==
    backpropagate_from(t, branch, result, 2)

backpropagate(t, branch, result) == backpropagate_from(t, branch, result, 1)

RECURSIVE best_fold_ge(_, _, _)
\* best_fold with >= for >: a later child replaces an equally visited one
best_fold_ge(t, k, best) ==
    IF k > Len(t[Root].children) THEN best
    ELSE LET next == t[Root].children[k]
         IN  IF best = << >> THEN best_fold_ge(t, k + 1, << next >>)
             ELSE IF t[next].simulations >= t[best[1]].simulations
                  THEN best_fold_ge(t, k + 1, << next >>)
                  ELSE best_fold_ge(t, k + 1, best)

RECURSIVE best_fold(_, _, _)
\* the fold of best_move from child k on, with the accumulator best
best_fold(t, k, best) ==
    IF k > Len(t[Root].children) THEN best
    ELSE LET next == t[Root].children[k]
         IN  IF best = << >> THEN best_fold(t, k + 1, << next >>)
             ELSE IF t[next].simulations > t[best[1]].simulations
                  THEN best_fold(t, k + 1, << next >>)
                  ELSE best_fold(t, k + 1, best)

\* the most visited child of the root found by best_move
best_child(t) == best_fold(t, 1, << >>)

\* best_move reading last_move of the root for that of the best child
best_move_of_root(t) ==
    IF best_child(t) = << >> THEN << >> ELSE t[Root].last_move

\* Tree::best_move
best_move(t) ==
    IF best_child(t) = << >> THEN << >> ELSE t[best_child(t)[1]].last_move

\* the leaf an iteration selects and expands
Leaf(t) == Last(select_branch(t, Root))

\* execute_mcts backpropagating a draw along the branch when the leaf gains
\* no child
execute_mcts_always(t, k, result) ==
    LET branch   == select_branch(t, Root)
        leaf     == Last(branch)
        expanded == expand_tree(t, leaf)
    IN  IF Len(expanded[leaf].children) = 0
        THEN backpropagate(expanded, branch, result)
        ELSE LET c == expanded[leaf].children[k]
             IN  backpropagate(expanded, Append(branch, c), result)

\* execute_mcts backpropagating the selected branch without the chosen child
execute_mcts_branch_only(t, k, result) ==
    LET branch   == select_branch(t, Root)
        leaf     == Last(branch)
        expanded == expand_tree(t, leaf)
    IN  IF Len(expanded[leaf].children) = 0 THEN expanded
        ELSE backpropagate(expanded, branch, result)

\* Tree::execute_mcts, with the two random draws as parameters: k is the
\* index children.choose picks, result the outcome the playout ends in
execute_mcts(t, k, result) ==
    LET branch   == select_branch(t, Root)
        leaf     == Last(branch)
        expanded == expand_tree(t, leaf)
    IN  IF Len(expanded[leaf].children) = 0 THEN expanded
        ELSE LET c == expanded[leaf].children[k]
             IN  backpropagate(expanded, Append(branch, c), result)

\* the tree after the expand_tree of an iteration
Expanded(t) == expand_tree(t, Leaf(t))

\* the children self[leaf].children.choose draws from
Choices(t) == Expanded(t)[Leaf(t)].children

\* whether the iteration from tree t gives its leaf no child and so skips
\* simulation and backpropagation
Wasted(t) == Len(Choices(t)) = 0

(* ------------------------------ the engine ---------------------------- *)
Budgets == [kind : {"Milliseconds", "Iterations"}, value : 0..MaxBudget]

\* the locals of go outside a call
NoBudget == [kind |-> "Iterations", value |-> 0]

\* Continue comparing the iterations with <= in place of <
Continue_le ==
    IF until.kind = "Milliseconds" THEN elapsed < until.value
    ELSE iterations <= until.value

\* the condition of the while loop of go; elapsed is what start.elapsed()
\* reads at this evaluation
Continue ==
    IF until.kind = "Milliseconds" THEN elapsed < until.value
    ELSE iterations < until.value

\* the clock readings that may follow the reading e under the budget u, in
\* units of Duration::from_millis(1).  An iteration takes at least one
\* unit; a reading past the deadline is recorded as the deadline, with
\* which alone it is compared.
Readings(u, e) ==
    IF u.kind = "Milliseconds"
    THEN IF e + 1 >= u.value THEN {u.value} ELSE (e + 1)..u.value
    ELSE {e}

\* the record of the running call: root simulations when it began, the
\* iterations it executed and those of them that ended at a terminal leaf
NewCall(t) == [base |-> t[Root].simulations, executed |-> 0, wasted |-> 0]

\* the calls kept in the log: the running one and the one before it
Recent(l) == IF Len(l) = 0 THEN l ELSE << Last(l) >>

\* the log after one more iteration of the running call
Counted(l, w) ==
    [l EXCEPT ![Len(l)].executed = @ + 1,
              ![Len(l)].wasted = @ + (IF w THEN 1 ELSE 0)]

\* Engine::new
Init ==
    /\ \E setup \in Setups : nodes = << NewRoot(setup) >>
    /\ pc = "idle"
    /\ until = NoBudget
    /\ iterations = 0
    /\ elapsed = 0
    /\ returned = << >>
    /\ log = << >>

\* GoCall building a fresh tree for the search
GoCall_fresh ==
    /\ pc = "idle"
    /\ \E u \in Budgets :
          /\ until' = u
          /\ elapsed' \in (IF u.kind = "Milliseconds" THEN 0..u.value ELSE {0})
    /\ iterations' = 0
    /\ pc' = "loop"
    /\ returned' = << >>
    /\ nodes' = << NewRoot(nodes[Root].position) >>
    /\ log' = Append(Recent(log), NewCall(nodes))

\* Engine::go is called: start = Instant::now(), iterations = 0
GoCall ==
    /\ pc = "idle"
    /\ \E u \in Budgets :
          /\ until' = u
          /\ elapsed' \in (IF u.kind = "Milliseconds" THEN 0..u.value ELSE {0})
    /\ iterations' = 0
    /\ pc' = "loop"
    /\ returned' = << >>
    /\ log' = Append(Recent(log), NewCall(nodes))
    /\ UNCHANGED nodes

\* one turn of the while loop of go: the condition holds, execute_mcts runs
Iterate ==
    /\ pc = "loop"
    /\ Continue
    /\ IF Wasted(nodes)
       THEN nodes' = execute_mcts(nodes, 1, Draw)
       ELSE \E k \in 1..Len(Choices(nodes)) :
               \E result \in simulate(Expanded(nodes)[Choices(nodes)[k]].position) :
                  nodes' = execute_mcts(nodes, k, result)
    /\ iterations' = iterations + 1
    /\ elapsed' \in Readings(until, elapsed)
    /\ log' = Counted(log, Wasted(nodes))
    /\ UNCHANGED <<pc, until, returned>>

\* the loop of go ends: best_move is returned and the locals are dropped
GoReturn ==
    /\ pc = "loop"
    /\ ~Continue
    /\ returned' = best_move(nodes)
    /\ pc' = "idle"
    /\ until' = NoBudget
    /\ iterations' = 0
    /\ elapsed' = 0
    /\ UNCHANGED <<nodes, log>>

Next == GoCall \/ Iterate \/ GoReturn

Spec == Init /\ [][Next]_vars

(* ------------------- an oracle that breaks its contract --------------- *)
\* expand_tree panics: play fails on a legal move of the leaf inside the
\* map that builds the children, before any of them is pushed
ExpandFault ==
    /\ pc = "loop"
    /\ Continue
    /\ Len(legal_moves(nodes[Leaf(nodes)].position)) > 0
    /\ pc' = "panicked in expand_tree"
    /\ UNCHANGED <<nodes, until, iterations, elapsed, returned, log>>

\* RolloutFault panicking only after the outcome has been backpropagated
RolloutFault_after_backpropagate ==
    /\ pc = "loop"
    /\ Continue
    /\ ~Wasted(nodes)
    /\ \E k \in 1..Len(Choices(nodes)) : \E c \in Colors :
          nodes' = execute_mcts(nodes, k, Decisive(c))
    /\ pc' = "panicked in simulate"
    /\ UNCHANGED <<until, iterations, elapsed, returned, log>>

\* simulate panics: play fails on a legal move of the playout, or the
\* playout reaches a position with no legal move and no outcome; the leaf
\* has been expanded and nothing has been backpropagated
RolloutFault ==
    /\ pc = "loop"
    /\ Continue
    /\ ~Wasted(nodes)
    /\ nodes' = Expanded(nodes)
    /\ pc' = "panicked in simulate"
    /\ UNCHANGED <<until, iterations, elapsed, returned, log>>

FaultNext == Next \/ ExpandFault \/ RolloutFault

FaultSpec == Init /\ [][FaultNext]_vars

(* ------------------------------ properties ---------------------------- *)
Ids == 1..Len(nodes)

Children(id) == nodes[id].children

RECURSIVE SumSims(_, _)
\* the simulations of the children of id from the k-th on, added up
SumSims(id, k) ==
    IF k > Len(Children(id)) THEN 0
    ELSE nodes[Children(id)[k]].simulations + SumSims(id, k + 1)

\* a call of go has returned and no other is running
GoReturned == pc = "idle" /\ Len(log) > 0

\* the call of go that is running or has returned last
Call == Last(log)

\* the i-th child of the root is the most visited one, and the earliest such
MostVisitedFirst(i) ==
    /\ \A j \in 1..Len(Children(Root)) :
          nodes[Children(Root)[j]].simulations
              <= nodes[Children(Root)[i]].simulations
    /\ \A j \in 1..(i - 1) :
          nodes[Children(Root)[j]].simulations
              < nodes[Children(Root)[i]].simulations

\* C1: best_move, and so go, returns the last_move of the root child with
\* the most simulations, the earliest in the children list among equals.
C1_BestMoveMostVisited ==
    Len(Children(Root)) > 0 =>
        /\ \E i \in 1..Len(Children(Root)) :
              /\ MostVisitedFirst(i)
              /\ best_move(nodes) = nodes[Children(Root)[i]].last_move
        /\ GoReturned => returned = best_move(nodes)

\* go has returned the move of the earlier of two root children that tie
\* with two or more simulations each, a third child having fewer
C1_Witness ==
    /\ GoReturned
    /\ \E i, j, k \in 1..Len(Children(Root)) :
          /\ i < j
          /\ MostVisitedFirst(i)
          /\ nodes[Children(Root)[i]].simulations >= 2
          /\ nodes[Children(Root)[j]].simulations
                 = nodes[Children(Root)[i]].simulations
          /\ nodes[Children(Root)[k]].simulations
                 < nodes[Children(Root)[i]].simulations
          /\ returned = nodes[Children(Root)[i]].last_move

\* C2 as stated: every node with children has as many simulations as its
\* children have together.
C2_SimulationsSumOfChildren ==
    \A id \in Ids :
        Len(Children(id)) > 0 => nodes[id].simulations = SumSims(id, 1)

\* C2 amended: the root has as many simulations as its children together;
\* any other node with children has as many, or exactly one more.
C2_SumOfChildrenOrOneMore ==
    /\ Len(Children(Root)) > 0 => nodes[Root].simulations = SumSims(Root, 1)
    /\ \A id \in Ids :
          Len(Children(id)) > 0 =>
              nodes[id].simulations - SumSims(id, 1) \in {0, 1}

\* a node other than the root has one simulation more than its children,
\* another has exactly as many, and the root has three or more
C2_Witness ==
    /\ nodes[Root].simulations >= 3
    /\ \E id \in Ids \ {Root} :
          Len(Children(id)) > 0 /\ nodes[id].simulations = SumSims(id, 1) + 1
    /\ \E id \in Ids \ {Root} :
          Len(Children(id)) > 0 /\ nodes[id].simulations = SumSims(id, 1)

\* C3: every node has 0 <= wins <= simulations (wins in half points, so
\* wins <= 2 * simulations here).
C3_WinsWithinSimulations ==
    \A id \in Ids :
        /\ 0 <= nodes[id].wins
        /\ nodes[id].wins <= 2 * nodes[id].simulations

\* some node has won all its simulations, some has lost all, and some has
\* a draw among several
C3_Witness ==
    /\ \E id \in Ids : nodes[id].simulations >= 2
                       /\ nodes[id].wins = 2 * nodes[id].simulations
    /\ \E id \in Ids : nodes[id].simulations >= 1 /\ nodes[id].wins = 0
    /\ \E id \in Ids : nodes[id].simulations >= 2 /\ nodes[id].wins % 2 = 1

\* whether the i-th child of the root exists and has no simulation yet
RootChildUnvisited(i) ==
    /\ i <= Len(Children(Root))
    /\ nodes[Children(Root)[i]].simulations = 0

\* whether the i-th child of the root exists and has a simulation
RootChildVisited(i) ==
    /\ i <= Len(Children(Root))
    /\ nodes[Children(Root)[i]].simulations >= 1

\* C4: the maximal score of a child without simulations gets every child
\* of the root visited: as long as iterations are executed none of them is
\* starved, that is, every executed iteration that finds root children
\* without a simulation gives one of them its first.
C4_EveryRootChildVisited ==
    [][ ((\E i \in 1..MaxTake : RootChildUnvisited(i))
            /\ iterations' = iterations + 1)
        => \E i \in 1..MaxTake :
              RootChildUnvisited(i) /\ RootChildVisited(i)' ]_vars

\* the first child of id that has no simulation
FirstUnvisited(id) ==
    Children(id)[CHOOSE k \in 1..Len(Children(id)) :
                    /\ nodes[Children(id)[k]].simulations = 0
                    /\ \A j \in 1..(k - 1) :
                          nodes[Children(id)[j]].simulations > 0]

HasUnvisited(id) ==
    \E k \in 1..Len(Children(id)) : nodes[Children(id)[k]].simulations = 0

\* C5: select_next on a node with a child of zero simulations returns the
\* first such child, never a child with simulations > 0.
C5_UnvisitedChildFirst ==
    \A id \in Ids :
        HasUnvisited(id) =>
            /\ select_next(nodes, id) = << FirstUnvisited(id) >>
            /\ nodes[select_next(nodes, id)[1]].simulations = 0

\* a node whose first child is visited and whose second and third are not
C5_Witness ==
    \E id \in Ids :
        /\ Len(Children(id)) = 3
        /\ nodes[Children(id)[1]].simulations > 0
        /\ nodes[Children(id)[2]].simulations = 0
        /\ nodes[Children(id)[3]].simulations = 0
        /\ select_next(nodes, id) = << Children(id)[2] >>

IsChild(parent, c) == \E k \in 1..Len(Children(parent)) : Children(parent)[k] = c

\* C6: select_branch from the root ends; the path it returns starts at the
\* root, steps from each node to one of its children, and ends at a node
\* without children.
C6_BranchFromRootToLeaf ==
    LET branch == select_branch(nodes, Root)
    IN  /\ Len(branch) >= 1
        /\ Len(branch) <= Len(nodes)
        /\ branch[1] = Root
        /\ \A i \in 1..(Len(branch) - 1) : IsChild(branch[i], branch[i + 1])
        /\ Len(Children(Last(branch))) = 0

\* the selected branch is four nodes long and passes a node that has an
\* unvisited sibling after it
C6_Witness ==
    LET branch == select_branch(nodes, Root)
    IN  /\ Len(branch) >= 4
        /\ nodes[Last(branch)].simulations = 0
        /\ nodes[branch[2]].simulations >= 2

\* the legal moves of the root position, as a set
RootMoves ==
    { legal_moves(nodes[Root].position)[i] :
        i \in 1..Len(legal_moves(nodes[Root].position)) }

\* C7 as stated: go returns no move only when the root position is
\* terminal; with a legal move at the root it returns one of them for
\* every budget, on a fresh engine too.
C7_MoveUnlessTerminal ==
    (GoReturned /\ RootMoves # {}) =>
        (Len(returned) = 1 /\ returned[1] \in RootMoves)

\* C7 amended: with a legal move at the root, go returns one of the root's
\* legal moves exactly when some iteration was executed on the engine, in
\* this call or an earlier one; otherwise (budget zero or deadline passed at
\* the first check, on a fresh engine) it returns no move.
C7_MoveOnceSearched ==
    (GoReturned /\ RootMoves # {}) =>
        IF Call.executed > 0 \/ Call.base > 0
        THEN Len(returned) = 1 /\ returned[1] \in RootMoves
        ELSE returned = << >>

\* a second call that executed no iteration has returned a move of a root
\* with three legal moves, the engine having been searched by the first
C7_Witness ==
    /\ GoReturned
    /\ Cardinality(RootMoves) = 3
    /\ Len(log) = 2
    /\ Call.executed = 0
    /\ Call.base > 0
    /\ Len(returned) = 1

\* C8: with exactly one legal move at the root, a call of go that executes
\* an iteration returns that move.
C8_OnlyMoveReturned ==
    (GoReturned /\ Cardinality(RootMoves) = 1 /\ Call.executed >= 1) =>
        returned = << legal_moves(nodes[Root].position)[1] >>

\* two calls on a root with one legal move have returned the move: the
\* first expanded the root, the second ran its iteration at the terminal
\* child
C8_Witness ==
    /\ GoReturned
    /\ Cardinality(RootMoves) = 1
    /\ Len(log) = 2
    /\ log[1].base = 0
    /\ log[1].executed = 1
    /\ Call.executed = 1
    /\ Call.wasted = 1
    /\ Len(returned) = 1

\* C9: with a terminal root position go returns no move, whatever the
\* budget, and the tree stays the root alone with no simulation, no win
\* and no child.
C9_TerminalRootNoMove ==
    RootMoves = {} =>
        /\ Len(nodes) = 1
        /\ nodes[Root].simulations = 0
        /\ nodes[Root].wins = 0
        /\ Children(Root) = << >>
        /\ best_move(nodes) = << >>
        /\ GoReturned => returned = << >>

\* two calls on a terminal root have returned, each after an iteration
C9_Witness ==
    /\ RootMoves = {}
    /\ GoReturned
    /\ Len(log) = 2
    /\ log[1].executed = 1
    /\ Call.executed = 1

RECURSIVE Net(_, _)
\* iterations executed less iterations ended at a terminal leaf, over the
\* calls of the log from the k-th on
Net(l, k) ==
    IF k > Len(l) THEN 0
    ELSE l[k].executed - l[k].wasted + Net(l, k + 1)

IsPrefix(s, t) == Len(s) <= Len(t) /\ \A i \in 1..Len(s) : s[i] = t[i]

\* no node is removed and none loses simulations, wins or children
NothingReset ==
    /\ Len(nodes') >= Len(nodes)
    /\ \A id \in Ids :
          /\ nodes'[id].simulations >= nodes[id].simulations
          /\ nodes'[id].wins >= nodes[id].wins
          /\ IsPrefix(nodes[id].children, nodes'[id].children)

\* C10: over two calls of go in a row the tree is not reset: the root's
\* simulations are those it had before the first of them plus the
\* iterations the two executed less those ended at a terminal leaf, and no
\* step of a call takes simulations, wins or children from a node.
C10_StatisticsAccumulate ==
    /\ [](Len(log) = 2 =>
            nodes[Root].simulations = log[1].base + Net(log, 1))
    /\ [](Len(log) >= 1 =>
            nodes[Root].simulations = Call.base + Net(log, Len(log)))
    /\ [][NothingReset]_vars

\* the second call on a fresh engine has returned: the first call ran an
\* iteration that simulated, the second one that ended at a terminal leaf,
\* and the root keeps the one simulation of the two iterations
C10_Witness ==
    /\ GoReturned
    /\ Len(log) = 2
    /\ log[1].base = 0
    /\ log[1].executed = 1
    /\ log[1].wasted = 0
    /\ log[2].executed = 1
    /\ log[2].wasted = 1
    /\ nodes[Root].simulations = 1
    /\ Len(nodes) > 2

(* --------------------------- steps of the loop ------------------------ *)
\* the step is one turn of the loop of go (the only step within a call)
IterationStep == pc = "loop" /\ pc' = "loop" /\ vars' # vars

\* the position of the selected leaf has no legal move
TerminalLeaf == Len(legal_moves(nodes[Leaf(nodes)].position)) = 0

Outcomes == {Draw} \cup {Decisive(c) : c \in Colors}

\* wins of a node in the next state less its wins now (0 for a new node)
WinsGained(id) ==
    nodes'[id].wins - (IF id \in Ids THEN nodes[id].wins ELSE 0)

\* simulations of a node in the next state less those now (0 for a new node)
SimsGained(id) ==
    nodes'[id].simulations - (IF id \in Ids THEN nodes[id].simulations ELSE 0)

\* what the outcome adds to the wins of a node of that side, in half points
HalfPoints(side, result) ==
    IF result = Draw THEN 1
    ELSE IF result.winner = side THEN 2 ELSE 0

\* C11: an iteration that simulates adds 1 to simulations on every node of
\* the selected branch and on one child of the expanded leaf, adds to the
\* wins of each of them 1 if the outcome is decisive for its
\* side_that_moved, 0.5 on a draw and 0 otherwise, and leaves wins and
\* simulations of every other node as they were.
C11_BackpropagateAlongPath ==
    [][ (IterationStep /\ ~TerminalLeaf) =>
          \E k \in 1..Len(legal_moves(nodes[Leaf(nodes)].position)) :
            \E result \in Outcomes :
              LET path == Append(select_branch(nodes, Root), Len(nodes) + k)
              IN  \A id \in 1..Len(nodes') :
                    IF \E i \in 1..Len(path) : path[i] = id
                    THEN /\ SimsGained(id) = 1
                         /\ WinsGained(id)
                              = HalfPoints(nodes'[id].side_that_moved, result)
                    ELSE SimsGained(id) = 0 /\ WinsGained(id) = 0 ]_vars

\* an iteration has simulated along a path of four nodes and ended in a
\* win of the chosen child's side, with nodes off the path
C11_Witness ==
    /\ pc = "loop"
    /\ Call.executed = 1
    /\ Call.wasted = 0
    /\ \E a, b, c \in Ids :
          /\ IsChild(Root, a) /\ IsChild(a, b) /\ IsChild(b, c)
          /\ Len(Children(c)) = 0
          /\ nodes[c].simulations = 1
          /\ nodes[c].wins = 2
          /\ nodes[b].wins = 0
          /\ nodes[b].simulations = 1
    /\ \E id \in Ids : nodes[id].simulations = 0

\* the node expand_tree makes of the i-th legal move of a node
Successor(id, i) ==
    LET m == legal_moves(nodes[id].position)[i]
    IN  [ side_that_moved |-> Not(nodes[id].side_that_moved),
          last_move       |-> << m >>,
          position        |-> play(nodes[id].position, m),
          wins            |-> 0,
          simulations     |-> 0,
          children        |-> << >> ]

\* a node has no child or one child per legal move of its position, in the
\* order of the moves, reached by that move and moved by the other side
ChildPerLegalMove ==
    \A id \in Ids :
       \/ Len(Children(id)) = 0
       \/ LET moves == legal_moves(nodes[id].position)
          IN  /\ Len(Children(id)) = Len(moves)
              /\ \A i \in 1..Len(moves) :
                    LET c == nodes[Children(id)[i]]
                    IN  /\ c.last_move = << moves[i] >>
                        /\ c.position = play(nodes[id].position, moves[i])
                        /\ c.side_that_moved = Not(nodes[id].side_that_moved)

\* where an iteration is about to run, expanding the selected leaf pushes
\* one fresh node per legal move at the end of the arena, puts their ids
\* in order in the children of the leaf and touches nothing else
ExpansionAppends ==
    (pc = "loop" /\ Continue) =>
       LET leaf == Leaf(nodes)
           k    == Len(legal_moves(nodes[leaf].position))
           e    == Expanded(nodes)
       IN  /\ Len(Children(leaf)) = 0
           /\ Len(e) = Len(nodes) + k
           /\ e[leaf].children = [i \in 1..k |-> Len(nodes) + i]
           /\ \A i \in 1..k : e[Len(nodes) + i] = Successor(leaf, i)
           /\ \A id \in Ids \ {leaf} : e[id] = nodes[id]
           /\ e[leaf] = [nodes[leaf] EXCEPT !.children = e[leaf].children]

\* the children of a node that has children stay as they are, and a step
\* that gives a node children gives it the k ids after the arena's end
ExpandedOnce ==
    \A id \in Ids :
       IF Len(Children(id)) > 0
       THEN nodes'[id].children = nodes[id].children
       ELSE \/ nodes'[id].children = << >>
            \/ /\ id = Leaf(nodes)
               /\ nodes'[id].children = Choices(nodes)
               /\ Len(nodes') = Len(nodes) + Len(Choices(nodes))

\* C12: expand_tree of a leaf with k legal moves appends k fresh nodes to
\* the arena and their ids, in the order of the moves, to the children of
\* the leaf; a node is expanded at most once; every node has no child or
\* one child per legal move; side_that_moved alternates along every edge.
C12_OneChildPerLegalMove ==
    /\ [](ChildPerLegalMove /\ ExpansionAppends)
    /\ [][ExpandedOnce]_vars

\* a node below the root has been expanded into three children while one
\* of its siblings is still a leaf
C12_Witness ==
    \E a, b \in Ids :
       /\ IsChild(Root, a) /\ IsChild(Root, b)
       /\ Len(Children(a)) = 3
       /\ Len(Children(b)) = 0
       /\ Len(legal_moves(nodes[b].position)) > 0

\* C13: an iteration whose selected leaf has a terminal position leaves the
\* whole tree as it was and is still counted as an iteration of the call.
C13_TerminalLeafIterationWasted ==
    [][ (IterationStep /\ TerminalLeaf) =>
          /\ nodes' = nodes
          /\ iterations' = iterations + 1
          /\ Last(log').executed = Last(log).executed + 1 ]_vars

\* a call has spent an iteration on a terminal leaf below the root of a
\* tree that still has an unvisited child of the root
C13_Witness ==
    /\ pc = "loop"
    /\ iterations = 1
    /\ Call.wasted = 1
    /\ Leaf(nodes) # Root
    /\ TerminalLeaf
    /\ \E i \in 1..Len(Children(Root)) : RootChildUnvisited(i)

\* the nodes listed among the children of a node
ChildSet(p) == { Children(p)[i] : i \in 1..Len(Children(p)) }

\* the nodes listed among the children of any node
AllChildren == UNION { ChildSet(p) : p \in Ids }

RECURSIVE EdgeCount(_)
\* the lengths of the children lists of the nodes from the k-th on, added up
EdgeCount(k) ==
    IF k > Len(nodes) THEN 0 ELSE Len(Children(k)) + EdgeCount(k + 1)

\* the arena is a tree rooted at the first node: the root alone has no
\* last_move, the nodes listed as children are all the nodes but the root,
\* there are as many places in the children lists as nodes listed, so each
\* is listed once, and a node is listed only after its parent
RootedTree ==
    /\ nodes[Root].last_move = << >>
    /\ \A id \in Ids \ {Root} : nodes[id].last_move # << >>
    /\ AllChildren = Ids \ {Root}
    /\ EdgeCount(1) = Cardinality(AllChildren)
    /\ \A p \in Ids : \A c \in ChildSet(p) : p < c

\* every node stays where it is with the fields it was made with, its
\* children only gain elements and its simulations do not decrease
AppendOnly ==
    /\ Len(nodes') >= Len(nodes)
    /\ \A id \in Ids :
          /\ nodes'[id].last_move = nodes[id].last_move
          /\ nodes'[id].position = nodes[id].position
          /\ nodes'[id].side_that_moved = nodes[id].side_that_moved
          /\ IsPrefix(nodes[id].children, nodes'[id].children)
          /\ nodes'[id].simulations >= nodes[id].simulations

\* C14: the arena is append-only and a tree rooted at the first handle: a
\* node's handle, last_move, position and side_that_moved never change,
\* children only gain elements, simulations never decrease, the root is
\* the only node without last_move, every other node is the child of
\* exactly one node, and a child's handle is greater than its parent's.
C14_AppendOnlyRootedTree ==
    /\ []RootedTree
    /\ [][AppendOnly]_vars

\* a tree three levels deep grown over two calls of go
C14_Witness ==
    /\ Len(log) = 2
    /\ log[1].executed = 1
    /\ Call.executed = 1
    /\ \E a, b \in Ids : IsChild(Root, a) /\ IsChild(a, b)
    /\ Len(nodes) >= 7

\* the step is the return of go
ReturnStep == pc = "loop" /\ pc' = "idle"

\* under an iteration budget the loop turns only below the budget and each
\* turn is one whole iteration; go returns at the budget, with best_move of
\* the tree as the iterations left it; nothing else changes the tree
CountedLoop ==
    /\ (IterationStep /\ until.kind = "Iterations") =>
          /\ iterations < until.value
          /\ iterations' = iterations + 1
          /\ Last(log').executed = iterations'
          /\ \E k \in 1..(IF Wasted(nodes) THEN 1 ELSE Len(Choices(nodes))) :
             \E result \in Outcomes :
                nodes' = execute_mcts(nodes, k, result)
    /\ (ReturnStep /\ until.kind = "Iterations") =>
          /\ iterations = until.value
          /\ Call.executed = until.value
          /\ nodes' = nodes
          /\ returned' = best_move(nodes)
    /\ nodes' # nodes => IterationStep

\* C15: under Until::Iterations(N) go tests the budget before each
\* iteration, executes exactly N whole iterations and then returns
\* best_move; with N = 0 no iteration runs and the tree stays as it was.
C15_ExactlyNIterations ==
    [][CountedLoop]_vars

\* go is about to return from Until::Iterations(1) after its one
\* iteration, which has grown the tree
C15_Witness ==
    /\ pc = "loop"
    /\ until.kind = "Iterations"
    /\ until.value = 1
    /\ iterations = 1
    /\ Call.executed = 1
    /\ nodes[Root].simulations = Call.base + 1
    /\ ~Continue

Panicked == pc \in {"panicked in expand_tree", "panicked in simulate"}

\* the step on which the search panics adds no wins and no simulations to
\* any node and counts no iteration; from expand_tree it leaves the arena
\* as it was, from simulate it leaves the children of the expanded leaf
FaultFrame ==
    /\ iterations' = iterations
    /\ log' = log
    /\ \A id \in 1..Len(nodes') : SimsGained(id) = 0 /\ WinsGained(id) = 0
    /\ pc' = "panicked in expand_tree" => nodes' = nodes
    /\ pc' = "panicked in simulate" =>
          /\ Len(nodes') = Len(nodes) + Len(Choices(nodes))
          /\ \A id \in Ids \ {Leaf(nodes)} : nodes'[id] = nodes[id]

\* C16: when the oracle breaks its contract in expand_tree or in simulate
\* the search stops for good: go returns no move and no iteration follows.
\* The fault in expand_tree comes before any child is appended and the
\* fault in simulate before backpropagate, so the faulting iteration
\* changes no wins and no simulations.
C16_ContractViolationFatal ==
    /\ [](Panicked => returned = << >>)
    /\ [][~Panicked]_vars
    /\ [][(Panicked' /\ ~Panicked) => FaultFrame]_vars

\* a playout has panicked below a leaf that had been visited before and
\* has just been given its children
C16_Witness ==
    /\ pc = "panicked in simulate"
    /\ \E a \in Ids :
          /\ IsChild(Root, a)
          /\ nodes[a].simulations = 1
          /\ Len(Children(a)) > 0
          /\ \A i \in 1..Len(Children(a)) :
                nodes[Children(a)[i]].simulations = 0

\* the nodes listed among the children of a node of tree t
ChildSetOf(t, p) == { t[p].children[i] : i \in 1..Len(t[p].children) }

\* the simulations a node has over those of its children together
Excess(id) == nodes[id].simulations - SumSims(id, 1)

\* the children the step may have drawn for the playout: those whose
\* backpropagation, after the selected branch, gives the next tree
ChosenNow ==
    LET e == Expanded(nodes)
        b == select_branch(nodes, Root)
    IN  { c \in ChildSetOf(e, Last(b)) :
            \E result \in Outcomes :
               nodes' = backpropagate(e, Append(b, c), result) }

\* a parent has its children's simulations or one more, the root has
\* exactly its children's, and simulations do not grow down the tree
ExcessAtMostOne ==
    /\ \A id \in Ids :
          /\ Len(Children(id)) > 0 => Excess(id) \in {0, 1}
          /\ nodes[id].simulations <= nodes[Root].simulations
          /\ \A i \in 1..Len(Children(id)) :
                nodes[Children(id)[i]].simulations <= nodes[id].simulations
    /\ Excess(Root) = 0

\* the children of a node in the next state that gain a simulation
GainingChildren(id) ==
    { i \in 1..Len(nodes'[id].children) :
         SimsGained(nodes'[id].children[i]) = 1 }

\* a node keeps the excess it was made with: it gains a simulation when
\* one of its children does, and no more than one of them does; and a node
\* is made with excess 1 if it is the child drawn for the playout and with
\* 0 if not
ExcessFromCreation ==
    /\ \A id \in 1..Len(nodes') : SimsGained(id) \in {0, 1}
    /\ \A id \in Ids :
          \/ Len(nodes'[id].children) = 0 /\ nodes'[id] = nodes[id]
          \/ Cardinality(GainingChildren(id)) = SimsGained(id)
    /\ Len(nodes') > Len(nodes) =>
          LET chosen == ChosenNow
          IN  /\ Cardinality(chosen) = 1
              /\ \A id \in (Len(nodes) + 1)..Len(nodes') :
                    /\ Len(nodes'[id].children) = 0
                    /\ nodes'[id].simulations = IF id \in chosen THEN 1 ELSE 0

\* C17: simulations(node) less the sum of its children's simulations is 0
\* or 1 for every node with children, 0 for the root, and 1 exactly for
\* the nodes that were the child drawn for the playout in the iteration
\* that created them; so simulations(child) <= simulations(parent) and
\* simulations(node) <= simulations(root).
C17_ExcessIsRolloutChild ==
    /\ []ExcessAtMostOne
    /\ [][ExcessFromCreation]_vars

\* the root has a child that was drawn for its first playout and later
\* expanded, and another that was expanded on its first visit
C17_Witness ==
    \E a, b \in Ids :
       /\ IsChild(Root, a) /\ IsChild(Root, b)
       /\ Len(Children(a)) > 0 /\ Excess(a) = 1
       /\ Len(Children(b)) > 0 /\ Excess(b) = 0

\* from a tree whose selected leaf is terminal every step leaves the tree
\* as it is, and with it the branch select_branch returns and best_move,
\* which depend on the tree alone; an iteration is wasted and a return
\* gives best_move of that tree
StaysStuck ==
    TerminalLeaf =>
       /\ nodes' = nodes
       /\ IterationStep => Last(log').wasted = Last(log).wasted + 1
       /\ ReturnStep => returned' = best_move(nodes)

\* a call that has wasted an iteration selects a terminal leaf; a call
\* that follows one that wasted an iteration wastes all of its own, and
\* the root has the simulations the earlier call left it with
StuckForGood ==
    /\ (Len(log) > 0 /\ Call.wasted > 0) => TerminalLeaf
    /\ (Len(log) = 2 /\ log[1].wasted > 0) =>
          /\ TerminalLeaf
          /\ Call.wasted = Call.executed
          /\ Call.base = log[1].base + log[1].executed - log[1].wasted
          /\ nodes[Root].simulations = Call.base
          /\ GoReturned => returned = best_move(nodes)

\* C18: once the selected branch ends at a terminal leaf, every later
\* iteration, of this call of go and of every later one, selects the same
\* branch, is wasted, and leaves the tree and best_move unchanged.
C18_StuckOnTerminalLeaf ==
    /\ []StuckForGood
    /\ [][StaysStuck]_vars

\* two calls of go in a row have each wasted their iteration on a
\* terminal leaf below the root, and a root child is still unvisited
C18_Witness ==
    /\ pc = "idle"
    /\ Len(log) = 2
    /\ log[1].wasted = 1
    /\ log[2].wasted = 1
    /\ Leaf(nodes) # Root
    /\ TerminalLeaf
    /\ returned = best_move(nodes)
    /\ \E i \in 1..Len(Children(Root)) : RootChildUnvisited(i)

RECURSIVE SumWins(_, _)
\* the wins of the children of id from the k-th on, added up, in half points
SumWins(id, k) ==
    IF k > Len(Children(id)) THEN 0
    ELSE nodes[Children(id)[k]].wins + SumWins(id, k + 1)

\* the wins of the root and of its children add up to the simulations of
\* the root (wins are kept in half points)
RootZeroSum ==
    nodes[Root].wins + SumWins(Root, 1) = 2 * nodes[Root].simulations

\* a simulation that reaches a child passes through its parent and gives
\* the two of them one win between them: all of it to one or half to each
EdgeZeroSum ==
    \A p \in 1..Len(nodes') :
       \A i \in 1..Len(nodes'[p].children) :
          LET c == nodes'[p].children[i]
          IN  SimsGained(c) = 1 =>
                /\ SimsGained(p) = 1
                /\ <<WinsGained(p), WinsGained(c)>>
                      \in {<<2, 0>>, <<0, 2>>, <<1, 1>>}

\* C19: wins(root) plus the wins of the root's children equals
\* simulations(root) in every reachable state, and every simulation
\* backpropagated through a parent-child edge adds exactly 1 win to the
\* pair: 1 and 0 on a decisive outcome, 0.5 and 0.5 on a draw.
C19_ZeroSumAcrossEdge ==
    /\ []RootZeroSum
    /\ [][EdgeZeroSum]_vars

\* the root has taken a draw and a win of each side among its simulations
C19_Witness ==
    /\ nodes[Root].simulations >= 3
    /\ nodes[Root].wins % 2 = 1
    /\ nodes[Root].wins >= 3
    /\ SumWins(Root, 1) >= 2

\* C20: a node that has children has simulations >= 1 and each of its
\* children has at most the node's simulations, so no UCT score is NaN,
\* every score beats the initial -1 and select_next returns one of the
\* children of every node that has children.
C20_SelectNextDefined ==
    \A id \in Ids :
       Len(Children(id)) > 0 =>
          /\ nodes[id].simulations >= 1
          /\ \A i \in 1..Len(Children(id)) :
                LET c == Children(id)[i]
                IN  /\ nodes[c].simulations <= nodes[id].simulations
                    /\ uct(nodes, id, c) # NaN
                    /\ Gt(uct(nodes, id, c), MinusOne)
          /\ select_next(nodes, id) # << >>
          /\ IsChild(id, select_next(nodes, id)[1])

\* the loop is about to select below a root whose children have all been
\* visited, one of them as often as the root less one
C20_Witness ==
    /\ pc = "loop"
    /\ Continue
    /\ Len(Children(Root)) >= 2
    /\ \A i \in 1..Len(Children(Root)) : RootChildVisited(i)
    /\ \E a \in Ids :
          /\ IsChild(Root, a)
          /\ Len(Children(a)) > 0
          /\ nodes[a].simulations >= 2

====
